---- MODULE Spec2Model ----
(***************************************************************************)
(* A model of sentry/utils/meta.py: the Meta cursor over a shared, mutable *)
(* annotation tree, and the two resolvers get_valid and get_all_valid.     *)
(*                                                                         *)
(* Python objects live on one heap, so that object identity and aliasing   *)
(* (two dict slots holding the same list) are visible.  A Python value is  *)
(* a record [t, i, s]: None, an int, a string, or a reference to a heap    *)
(* object (a dict or a list).  `{}` and `[]` literals whose result is      *)
(* never stored are the values NewDict and NewList.                        *)
(***************************************************************************)
EXTENDS Integers, Sequences, FiniteSets, TLC

VARIABLES heap, data, last, nops, log, mrg

vars == <<heap, data, last, nops, log, mrg>>

----------------------------------------------------------------------------
(* Bounds of the model *)

\* the heap never holds more than this many objects
MaxAddr == 24
\* an `err` list never grows beyond this length
MaxErrs == 3
\* tree-mutating calls (create, add_error, merge) in one behaviour
MaxOps == 2
\* tree-mutating calls in one behaviour of the add_error-only specification
MaxCalls == 3

----------------------------------------------------------------------------
(* Python values *)

None == [t |-> "none", i |-> 0, s |-> ""]
I(n) == [t |-> "int", i |-> n, s |-> ""]
S(x) == [t |-> "str", i |-> 0, s |-> x]
Ref(a) == [t |-> "ref", i |-> a, s |-> ""]
NewDict == [t |-> "newdict", i |-> 0, s |-> ""]
NewList == [t |-> "newlist", i |-> 0, s |-> ""]
\* the outcome of a call that raises (AttributeError / TypeError)
Raise == [t |-> "raise", i |-> 0, s |-> ""]

EmptyMap == [k \in {} |-> k]
DictObj(d) == [k |-> "dict", d |-> d, l |-> <<>>]
ListObj(l) == [k |-> "list", d |-> EmptyMap, l |-> l]

IsDict(h, v) == v = NewDict \/ (v.t = "ref" /\ h[v.i].k = "dict")
IsList(h, v) == v = NewList \/ (v.t = "ref" /\ h[v.i].k = "list")
DictOf(h, v) == IF v.t = "ref" THEN h[v.i].d ELSE EmptyMap
ListOf(h, v) == IF v.t = "ref" THEN h[v.i].l ELSE <<>>

\* dict.get(key): the value, or None when the key is missing
DictGet(h, v, key) ==
    IF key \in DOMAIN DictOf(h, v) THEN DictOf(h, v)[key] ELSE None

\* Python truth value: None, 0, "", {} and [] are falsy
Truthy(h, v) ==
    CASE v.t = "none" -> FALSE
      [] v.t = "int" -> v.i # 0
      [] v.t = "str" -> v.s # ""
      [] v.t = "ref" -> IF h[v.i].k = "dict" THEN DOMAIN h[v.i].d # {}
                        ELSE h[v.i].l # <<>>
      [] OTHER -> FALSE

\* d[key] = val on the dict at address a
SetItem(h, a, key, val) ==
    [h EXCEPT ![a] = DictObj([x \in DOMAIN h[a].d \cup {key} |->
                                 IF x = key THEN val ELSE h[a].d[x]])]

Digits == <<"0", "1", "2", "3", "4", "5", "6", "7", "8", "9">>

RECURSIVE NatStr(_)
NatStr(n) ==
    IF n < 10 THEN Digits[n + 1] ELSE NatStr(n \div 10) \o Digits[(n % 10) + 1]

\* six.text_type(x) for an int or a string
text_type(x) ==
    IF x.t = "int"
    THEN S(IF x.i < 0 THEN "-" \o NatStr(-x.i) ELSE NatStr(x.i))
    ELSE x

----------------------------------------------------------------------------------------------------------------------------------------------
(* class Meta.  Every operation returns [h |-> the heap after the call,    *)
(* r |-> the returned value].  An intermediate result is bound by          *)
(* `x \in {e}` and the body read off with Only, so that e is evaluated     *)
(* once.                                                                   *)

Only(set) == CHOOSE x \in set : TRUE

\* Meta(meta): a cursor at the root of `meta`, or of a new empty tree
Meta(meta) == [meta |-> IF meta = None THEN NewDict ELSE meta, path |-> <<>>]

NoCursor == [meta |-> None, path |-> <<>>]

\* enter(*path): self afterwards, and the new cursor
enter(self, keys) ==
    [self |-> self,
     new |-> [meta |-> self.meta,
              path |-> self.path \o [n \in 1..Len(keys) |-> text_type(keys[n])]]]

\* meta = meta.get(key) or {}
RECURSIVE RawWalk(_, _, _)
RawWalk(h, meta, path) ==
    IF path = <<>> THEN [h |-> h, r |-> meta]
    ELSE IF ~IsDict(h, meta) THEN [h |-> h, r |-> Raise]
    ELSE Only({RawWalk(h, IF Truthy(h, got) THEN got ELSE NewDict, Tail(path)) :
                 got \in {DictGet(h, meta, Head(path))}})

raw(h, self) == RawWalk(h, self.meta, self.path)

\* x.get(key) or <new>, on the result x of a call
GetOr(x, key, new) ==
    IF x.r = Raise \/ ~IsDict(x.h, x.r) THEN [h |-> x.h, r |-> Raise]
    ELSE [h |-> x.h,
          r |-> IF Truthy(x.h, DictGet(x.h, x.r, key)) THEN DictGet(x.h, x.r, key)
                ELSE new]

get(h, self) == Only({GetOr(x, S(""), NewDict) : x \in {raw(h, self)}})

get_errors(h, self) == Only({GetOr(x, S("err"), NewList) : x \in {get(h, self)}})

\* CreateKey with the test `if not meta.get(key)`: an empty node is replaced
CreateKeyIfFalsy(h, a, key) ==
    IF ~Truthy(h, DictGet(h, Ref(a), key))
    THEN SetItem(Append(h, DictObj(EmptyMap)), a, key, Ref(Len(h) + 1))
    ELSE h

\* if key not in meta or meta[key] is None: meta[key] = {}
CreateKey(h, a, key) ==
    IF key \notin DOMAIN h[a].d \/ h[a].d[key] = None
    THEN SetItem(Append(h, DictObj(EmptyMap)), a, key, Ref(Len(h) + 1))
    ELSE h

RECURSIVE CreateWalk(_, _, _)
CreateWalk(h, meta, path) ==
    IF path = <<>> THEN [h |-> h, r |-> meta]
    ELSE IF ~(meta.t = "ref" /\ h[meta.i].k = "dict") THEN [h |-> h, r |-> Raise]
    ELSE Only({CreateWalk(h1, h1[meta.i].d[Head(path)], Tail(path)) :
                 h1 \in {CreateKey(h, meta.i, Head(path))}})

create(h, self) == CreateWalk(h, self.meta, self.path \o <<S("")>>)

\* meta.update(other) on the dict at address a
Update(h, a, other) ==
    [h EXCEPT ![a] = DictObj([x \in DOMAIN h[a].d \cup DOMAIN DictOf(h, other) |->
                                 IF x \in DOMAIN DictOf(h, other)
                                 THEN DictOf(h, other)[x] ELSE h[a].d[x]])]

\* merge() from `meta.update(other)` on: h1 is the heap after the update,
\* meta the entry, err its `err` before the update, other the source entry
MergeErrors(h1, meta, err, other) ==
    IF Truthy(h1, err) /\ Truthy(h1, DictGet(h1, other, S("err")))
    THEN IF ~(IsList(h1, err) /\ IsList(h1, DictGet(h1, other, S("err"))))
         THEN [h |-> h1, r |-> Raise]
         ELSE [h |-> SetItem(Append(h1, ListObj(ListOf(h1, err) \o
                                     ListOf(h1, DictGet(h1, other, S("err"))))),
                             meta.i, S("err"), Ref(Len(h1) + 1)),
               r |-> meta]
    ELSE [h |-> h1, r |-> meta]

\* merge() from `meta = self.create()` on: c is the result of create()
MergeInto(c, other) ==
    IF c.r = Raise \/ ~IsDict(c.h, c.r) \/ ~IsDict(c.h, other)
    THEN [h |-> c.h, r |-> Raise]
    ELSE Only({MergeErrors(h1, c.r, DictGet(c.h, c.r, S("err")), other) :
                 h1 \in {Update(c.h, c.r.i, other)}})

\* MergeOther with create() called before the test `if not other: return`
MergeOtherCreateFirst(o, self) ==
    IF o.r = Raise THEN o
    ELSE Only({IF ~Truthy(c.h, o.r) THEN [h |-> c.h, r |-> None]
               ELSE MergeInto(c, o.r) : c \in {create(o.h, self)}})

\* merge() after `other = other.get()`: o is the result of other.get()
MergeOther(o, self) ==
    IF o.r = Raise THEN o
    ELSE IF ~Truthy(o.h, o.r) THEN [h |-> o.h, r |-> None]
    ELSE Only({MergeInto(c, o.r) : c \in {create(o.h, self)}})

merge(h, self, other) == Only({MergeOther(o, self) : o \in {get(h, other)}})

\* CreateErr with `meta['err'] = []` done on every call
CreateErrReset(h, a) ==
    SetItem(Append(h, ListObj(<<>>)), a, S("err"), Ref(Len(h) + 1))

\* if 'err' not in meta or meta['err'] is None: meta['err'] = []
CreateErr(h, a) ==
    IF S("err") \notin DOMAIN h[a].d \/ h[a].d[S("err")] = None
    THEN SetItem(Append(h, ListObj(<<>>)), a, S("err"), Ref(Len(h) + 1))
    ELSE h

\* meta['err'].append(text); if value is not None: meta['val'] = value
AppendError(h1, a, text, value) ==
    IF ~IsList(h1, h1[a].d[S("err")]) THEN [h |-> h1, r |-> Raise]
    ELSE Only({[h |-> IF value # None THEN SetItem(h2, a, S("val"), value) ELSE h2,
                r |-> None] :
                 h2 \in {[h1 EXCEPT ![h1[a].d[S("err")].i] =
                            ListObj(Append(h1[h1[a].d[S("err")].i].l, text))]}})

\* add_error() from `meta = self.create()` on: c is the result of create()
AddErrorTo(c, error, value) ==
    IF c.r = Raise \/ ~IsDict(c.h, c.r) THEN [h |-> c.h, r |-> Raise]
    ELSE Only({AppendError(h1, c.r.i, text_type(error), value) :
                 h1 \in {CreateErr(c.h, c.r.i)}})

add_error(h, self, error, value) ==
    Only({AddErrorTo(c, error, value) : c \in {create(h, self)}})

----------------------------------------------------------------------------
(* get_valid and get_all_valid.  A result is [k, v, c, l]: a plain value,  *)
(* a (value, meta) tuple, a list of items (each with its cursor when       *)
(* with_meta is set), or an exception.                                     *)

Value(v) == [k |-> "value", v |-> v, c |-> NoCursor, l |-> <<>>]
Pair(v, c) == [k |-> "pair", v |-> v, c |-> c, l |-> <<>>]
List(l) == [k |-> "list", v |-> None, c |-> NoCursor, l |-> l]
Raised == [k |-> "raise", v |-> None, c |-> NoCursor, l |-> <<>>]

\* the `meta` keyword argument when it is not passed
NoMeta == NoCursor

\* kwargs.pop('meta', None) or isinstance(data, Mapping) and Meta(...) or Meta()
StartMeta(h, d, meta) ==
    IF meta # NoMeta THEN meta
    ELSE IF IsDict(h, d) THEN Meta(DictGet(h, d, S("_meta")))
    ELSE Meta(None)

\* (None, root.enter(*path)) if with_meta else None
NotFound(root, path, with_meta) ==
    IF with_meta THEN Pair(None, enter(root, path).new) ELSE Value(None)

\* Normalize without the normalization of a negative index
NormalizeNot(h, d, key) == key

\* if isinstance(data, (list, tuple)) and key < 0: key = len(data) + key
Normalize(h, d, key) ==
    IF IsList(h, d) /\ key.t = "int" /\ key.i < 0
    THEN I(Len(ListOf(h, d)) + key.i)
    ELSE key

\* ValidStep without the test `if meta.get_errors()`
ValidStepNoErrors(e, d, key, root, path, with_meta) ==
    IF e.r = Raise THEN [done |-> TRUE, h |-> e.h, r |-> Raised, d |-> None]
    ELSE IF IsDict(e.h, d) /\ key \in DOMAIN DictOf(e.h, d)
    THEN [done |-> FALSE, h |-> e.h, r |-> Raised, d |-> DictOf(e.h, d)[key]]
    ELSE IF IsList(e.h, d) /\ key.t = "int" /\ 0 <= key.i
            /\ key.i < Len(ListOf(e.h, d))
    THEN [done |-> FALSE, h |-> e.h, r |-> Raised, d |-> ListOf(e.h, d)[key.i + 1]]
    ELSE [done |-> TRUE, h |-> e.h, r |-> NotFound(root, path, with_meta), d |-> None]

\* ValidStep with the index test `0 < key < len(data)`
ValidStepNoFirst(e, d, key, root, path, with_meta) ==
    IF e.r = Raise THEN [done |-> TRUE, h |-> e.h, r |-> Raised, d |-> None]
    ELSE IF Truthy(e.h, e.r)
    THEN [done |-> TRUE, h |-> e.h, r |-> NotFound(root, path, with_meta), d |-> None]
    ELSE IF IsDict(e.h, d) /\ key \in DOMAIN DictOf(e.h, d)
    THEN [done |-> FALSE, h |-> e.h, r |-> Raised, d |-> DictOf(e.h, d)[key]]
    ELSE IF IsList(e.h, d) /\ key.t = "int" /\ 0 < key.i
            /\ key.i < Len(ListOf(e.h, d))
    THEN [done |-> FALSE, h |-> e.h, r |-> Raised, d |-> ListOf(e.h, d)[key.i + 1]]
    ELSE [done |-> TRUE, h |-> e.h, r |-> NotFound(root, path, with_meta), d |-> None]

\* One round of the loop of get_valid, after `meta = meta.enter(key)`: e is
\* the result of meta.get_errors().  The round ends the call (done) or goes
\* on with the data and the heap it gives.
ValidStep(e, d, key, root, path, with_meta) ==
    IF e.r = Raise THEN [done |-> TRUE, h |-> e.h, r |-> Raised, d |-> None]
    ELSE IF Truthy(e.h, e.r)
    THEN [done |-> TRUE, h |-> e.h, r |-> NotFound(root, path, with_meta), d |-> None]
    ELSE IF IsDict(e.h, d) /\ key \in DOMAIN DictOf(e.h, d)
    THEN [done |-> FALSE, h |-> e.h, r |-> Raised, d |-> DictOf(e.h, d)[key]]
    ELSE IF IsList(e.h, d) /\ key.t = "int" /\ 0 <= key.i
            /\ key.i < Len(ListOf(e.h, d))
    THEN [done |-> FALSE, h |-> e.h, r |-> Raised, d |-> ListOf(e.h, d)[key.i + 1]]
    ELSE [done |-> TRUE, h |-> e.h, r |-> NotFound(root, path, with_meta), d |-> None]

RECURSIVE ValidLoop(_, _, _, _, _, _, _)
ValidLoop(h, d, meta, rest, root, path, with_meta) ==
    IF rest = <<>>
    THEN [h |-> h, r |-> IF with_meta THEN Pair(d, meta) ELSE Value(d)]
    ELSE Only({Only({Only({
           IF st.done THEN [h |-> st.h, r |-> st.r]
           ELSE ValidLoop(st.h, st.d, m, Tail(rest), root, path, with_meta) :
             st \in {ValidStep(get_errors(h, m), d, key, root, path, with_meta)}}) :
             m \in {enter(meta, <<key>>).new}}) :
             key \in {Normalize(h, d, Head(rest))}})

get_valid(h, d, path, meta, with_meta) ==
    Only({ValidLoop(h, d, root, path, root, path, with_meta) :
            root \in {StartMeta(h, d, meta)}})

\* KeepItem without the test `item is not None`
KeepItemWithNone(e, item, item_meta, with_meta) ==
    [h |-> e.h, ok |-> e.r # Raise,
     r |-> IF e.r # Raise /\ ~Truthy(e.h, e.r)
           THEN <<[v |-> item, c |-> IF with_meta THEN item_meta ELSE NoCursor]>>
           ELSE <<>>]

\* One round of the loop over enumerate(value): e is the result of
\* item_meta.get_errors(), or a result without errors for a None item, for
\* which get_errors() is not called.
KeepItem(e, item, item_meta, with_meta) ==
    [h |-> e.h, ok |-> e.r # Raise,
     r |-> IF item # None /\ e.r # Raise /\ ~Truthy(e.h, e.r)
           THEN <<[v |-> item, c |-> IF with_meta THEN item_meta ELSE NoCursor]>>
           ELSE <<>>]

\* the loop over enumerate(value), from position n on; ok is FALSE when a
\* get_errors() call raised
RECURSIVE AllValidLoop(_, _, _, _, _)
AllValidLoop(h, items, n, meta, with_meta) ==
    IF n > Len(items) THEN [h |-> h, ok |-> TRUE, r |-> <<>>]
    ELSE Only({IF ~k.ok THEN k
               ELSE Only({[h |-> rest.h, ok |-> rest.ok, r |-> k.r \o rest.r] :
                            rest \in {AllValidLoop(k.h, items, n + 1, meta,
                                                   with_meta)}}) :
                 k \in {KeepItem(IF items[n] # None
                                 THEN get_errors(h, enter(meta, <<I(n - 1)>>).new)
                                 ELSE [h |-> h, r |-> NewList],
                                 items[n], enter(meta, <<I(n - 1)>>).new,
                                 with_meta)}})

\* get_all_valid() after the call of get_valid: g is its result
FilterValid(g, with_meta) ==
    IF g.r = Raised THEN g
    ELSE IF ~Truthy(g.h, g.r.v) \/ ~IsList(g.h, g.r.v)
    THEN [h |-> g.h, r |-> IF with_meta THEN Pair(g.r.v, g.r.c) ELSE Value(g.r.v)]
    ELSE Only({[h |-> a.h, r |-> IF a.ok THEN List(a.r) ELSE Raised] :
                 a \in {AllValidLoop(g.h, ListOf(g.h, g.r.v), 1, g.r.c, with_meta)}})

get_all_valid(h, d, path, meta, with_meta) ==
    Only({FilterValid(g, with_meta) :
            g \in {get_valid(h, d, path, StartMeta(h, d, meta), TRUE)}})

----------
(* The initial heaps: the primary data at addresses 1..3 and, from address *)
(* 4 on, an annotation tree as a validator may have left it.               *)

Dict1(k1, v1) == DictObj(k1 :> v1)
Dict2(k1, v1, k2, v2) == DictObj(k1 :> v1 @@ k2 :> v2)
Dict3(k1, v1, k2, v2, k3, v3) == DictObj(k1 :> v1 @@ k2 :> v2 @@ k3 :> v3)

\* {"a": [10, None, {"c": 5}], "n": 7, "_meta": <the tree at address 4>}
PrimaryData ==
    << Dict3(S("a"), Ref(2), S("n"), I(7), S("_meta"), Ref(4)),
       ListObj(<<I(10), None, Ref(3)>>),
       Dict1(S("c"), I(5)) >>

\* {"a": None}
TreeNull == << Dict1(S("a"), None) >>

\* {"a": {"0": {"": {"err": ["invalid"]}},
\*        "2": {"c": {"": {"err": ["deep"], "val": 9}}},
\*        "-1": {"": {"err": ["neg"]}}}, "n": None}
TreeItems ==
    << Dict2(S("a"), Ref(5), S("n"), None),
       Dict3(S("0"), Ref(6), S("2"), Ref(12), S("-1"), Ref(9)),
       Dict1(S(""), Ref(7)),
       Dict1(S("err"), Ref(8)),
       ListObj(<<S("invalid")>>),
       Dict1(S(""), Ref(10)),
       Dict1(S("err"), Ref(11)),
       ListObj(<<S("neg")>>),
       Dict1(S("c"), Ref(13)),
       Dict1(S(""), Ref(14)),
       Dict2(S("err"), Ref(15), S("val"), I(9)),
       ListObj(<<S("deep")>>) >>

\* {"a": {"": {"err": [], "val": 3}, "2": {"": {"err": None}}},
\*  "n": {"": {"err": ["bad"]}}}
TreeEntries ==
    << Dict2(S("a"), Ref(5), S("n"), Ref(9)),
       Dict2(S(""), Ref(6), S("2"), Ref(7)),
       Dict2(S("err"), Ref(8), S("val"), I(3)),
       Dict1(S(""), Ref(11)),
       ListObj(<<>>),
       Dict1(S(""), Ref(10)),
       Dict1(S("err"), Ref(12)),
       Dict1(S("err"), None),
       ListObj(<<S("bad")>>) >>

Trees == {TreeNull, TreeItems, TreeEntries}

----------------------------------------------------------------------------
(* The calls.  A behaviour populates the tree with at most MaxOps mutating *)
(* calls (create, add_error, merge) and ends with one observing call       *)
(* (enter, raw, get, get_errors, get_valid, get_all_valid); `last` is the  *)
(* most recent call with its arguments and its result.                     *)

Call(op, self, other, d, path, meta, with_meta, error, value, res) ==
    [op |-> op, self |-> self, other |-> other, d |-> d, path |-> path,
     meta |-> meta, with_meta |-> with_meta, error |-> error, value |-> value,
     res |-> res]

MetaCall(op, self, other, error, value, r) ==
    Call(op, self, other, None, <<>>, NoMeta, FALSE, error, value,
         IF r = Raise THEN Raised ELSE Value(r))

Mutators == {"create", "add_error", "merge"}
Observers == {"enter", "raw", "get", "get_errors", "get_valid", "get_all_valid"}

\* the tree under data["_meta"], and the cursor at a path of it
Tree == DictGet(heap, data, S("_meta"))
Cur(p) == enter(Meta(Tree), p).new

\* the cursors the mutating calls are made on, and the sources of a merge
CursorPaths == {<<S("a")>>, <<S("a"), I(2)>>}
SourcePaths == CursorPaths \cup {<<S("a"), I(0)>>, <<S("n")>>}
\* the cursors the reading calls are made on
ReadPaths ==
    SourcePaths \cup {<<>>, <<S("a"), I(-1)>>, <<S("a"), I(2), S("c")>>,
                      <<S("q"), S("r")>>}
Errors == {S("bad"), I(7)}
Values == {None, I(1), I(2)}
\* the (error, value) arguments of add_error while populating
ErrorArgs == {<<S("bad"), None>>, <<I(7), I(1)>>}

\* what a cursor shows of its entry: the keys, the errors and the value
EntryView(h, c) ==
    [keys |-> DOMAIN DictOf(h, get(h, c).r),
     errs |-> ListOf(h, get_errors(h, c).r),
     val |-> DictGet(h, get(h, c).r, S("val"))]

NoMerge == [d |-> NoCursor, s |-> NoCursor,
            view |-> [keys |-> {}, errs |-> <<>>, val |-> None]]

NoLog == [p \in CursorPaths |-> [fresh |-> FALSE, calls |-> <<>>]]

Init ==
    /\ \E tree \in Trees : heap = PrimaryData \o tree
    /\ data = Ref(1)
    /\ last = MetaCall("init", NoCursor, NoCursor, None, None, None)
    /\ nops = 0
    /\ log = [p \in CursorPaths |->
                [fresh |-> ~Truthy(heap, get(heap, Cur(p)).r), calls |-> <<>>]]
    /\ mrg = NoMerge

Populating == last.op \notin Observers

Create(p) ==
    /\ Populating /\ nops < MaxOps
    /\ \E x \in {create(heap, Cur(p))} :
          /\ Len(x.h) <= MaxAddr
          /\ heap' = x.h
          /\ last' = MetaCall("create", Cur(p), NoCursor, None, None, x.r)
    /\ nops' = nops + 1
    /\ mrg' = NoMerge
    /\ UNCHANGED <<data, log>>

AddErrorCall(p, error, value, bound) ==
    /\ Populating /\ nops < bound
    /\ \E x \in {add_error(heap, Cur(p), error, value)} :
          /\ Len(x.h) <= MaxAddr
          /\ Len(ListOf(x.h, get_errors(x.h, Cur(p)).r)) <= MaxErrs
          /\ heap' = x.h
          /\ last' = MetaCall("add_error", Cur(p), NoCursor, error, value, x.r)
    /\ nops' = nops + 1
    /\ mrg' = IF mrg.d = Cur(p) THEN mrg ELSE NoMerge
    /\ UNCHANGED data

AddError(p, args) ==
    /\ AddErrorCall(p, args[1], args[2], MaxOps)
    /\ UNCHANGED log

Merge(p, q) ==
    /\ Populating /\ nops < MaxOps
    /\ \E x \in {merge(heap, Cur(p), Cur(q))} :
          /\ Len(x.h) <= MaxAddr
          /\ Len(ListOf(x.h, get_errors(x.h, Cur(p)).r)) <= MaxErrs
          /\ heap' = x.h
          /\ last' = MetaCall("merge", Cur(p), Cur(q), None, None, x.r)
          /\ mrg' = IF p # q
                    THEN [d |-> Cur(p), s |-> Cur(q), view |-> EntryView(x.h, Cur(q))]
                    ELSE NoMerge
    /\ nops' = nops + 1
    /\ UNCHANGED <<data, log>>

Enter(p, keys) ==
    /\ Populating
    /\ \E x \in {enter(Cur(p), keys)} :
          last' = Call("enter", x.self, Cur(p), None, keys, NoMeta, FALSE, None,
                       None, Pair(None, x.new))
    /\ UNCHANGED <<heap, data, nops, log, mrg>>

Raw(p) ==
    /\ Populating
    /\ \E x \in {raw(heap, Cur(p))} :
          /\ heap' = x.h
          /\ last' = MetaCall("raw", Cur(p), NoCursor, None, None, x.r)
    /\ UNCHANGED <<data, nops, log, mrg>>

Get(p) ==
    /\ Populating
    /\ \E x \in {get(heap, Cur(p))} :
          /\ heap' = x.h
          /\ last' = MetaCall("get", Cur(p), NoCursor, None, None, x.r)
    /\ UNCHANGED <<data, nops, log, mrg>>

GetErrors(p) ==
    /\ Populating
    /\ \E x \in {get_errors(heap, Cur(p))} :
          /\ heap' = x.h
          /\ last' = MetaCall("get_errors", Cur(p), NoCursor, None, None, x.r)
    /\ UNCHANGED <<data, nops, log, mrg>>

----------------------------------------------------------------------------
(* The arguments of the resolver calls: the data, the path and the `meta`  *)
(* keyword (NoMeta when it is not passed).                                 *)

\* paths into the whole document, its annotation tree taken from "_meta"
RootPaths ==
    {<<>>, <<S("a")>>, <<S("n")>>, <<S("q")>>, <<S("n"), I(0)>>,
     <<S("a"), S("c")>>, <<S("a"), I(2), S("c")>>, <<S("a"), I(-1), S("c")>>,
     <<S("a"), I(2), S("q")>>, <<S("a"), I(0), S("c")>>,
     <<S("a"), I(-4), S("c")>>}
    \cup {<<S("a"), I(n)>> : n \in -4..3}

\* paths into the list data["a"], with the cursor at "a" passed as `meta`
ListPaths ==
    {<<>>, <<I(0)>>, <<I(2)>>, <<I(-1)>>, <<I(-4)>>, <<I(2), S("c")>>,
     <<I(-1), S("c")>>}

Query(d, path, meta) == [d |-> d, path |-> path, meta |-> meta]

Queries ==
    {Query(data, p, NoMeta) : p \in RootPaths}
    \cup {Query(DictGet(heap, data, S("a")), p, Cur(<<S("a")>>)) : p \in ListPaths}
    \cup {Query(DictGet(heap, data, S("a")), p, NoMeta) : p \in {<<I(0)>>, <<I(-1)>>}}
    \cup {Query(I(7), p, NoMeta) : p \in {<<>>, <<S("a")>>}}

GetValid(q, with_meta) ==
    /\ Populating
    /\ \E x \in {get_valid(heap, q.d, q.path, q.meta, with_meta)} :
          /\ heap' = x.h
          /\ last' = Call("get_valid", NoCursor, NoCursor, q.d, q.path, q.meta,
                          with_meta, None, None, x.r)
    /\ UNCHANGED <<data, nops, log, mrg>>

GetAllValid(q, with_meta) ==
    /\ Populating
    /\ \E x \in {get_all_valid(heap, q.d, q.path, q.meta, with_meta)} :
          /\ heap' = x.h
          /\ last' = Call("get_all_valid", NoCursor, NoCursor, q.d, q.path, q.meta,
                          with_meta, None, None, x.r)
    /\ UNCHANGED <<data, nops, log, mrg>>

Next ==
    \/ \E p \in CursorPaths : Create(p)
    \/ \E p \in CursorPaths, args \in ErrorArgs : AddError(p, args)
    \/ \E p \in CursorPaths, q \in SourcePaths : Merge(p, q)
    \/ \E p \in CursorPaths, keys \in {<<I(1)>>, <<S("b"), I(-2)>>} : Enter(p, keys)
    \/ \E p \in ReadPaths : Raw(p)
    \/ \E p \in ReadPaths : Get(p)
    \/ \E p \in ReadPaths : GetErrors(p)
    \/ \E q \in Queries, with_meta \in BOOLEAN : GetValid(q, with_meta)
    \/ \E q \in Queries, with_meta \in BOOLEAN : GetAllValid(q, with_meta)

Spec == Init /\ [][Next]_vars

----------------------------------------------------------------------------
(* add_error calls alone, each logged under the path of its cursor         *)

LoggedAddError(p, error, value) ==
    /\ AddErrorCall(p, error, value, MaxCalls)
    /\ log' = [log EXCEPT ![p].calls = Append(@, <<error, value>>)]

NextAddError ==
    \E p \in CursorPaths, error \in Errors, value \in Values :
        LoggedAddError(p, error, value)

SpecAddError == Init /\ [][NextAddError]_vars

----------------------------------------------------------------------------
(* The reading calls over annotation trees that hold something else than a *)
(* mapping where a node or an entry is expected                            *)

\* {"a": "oops"}
TreeStringNode == << Dict1(S("a"), S("oops")) >>
\* {"a": {"": 5, "2": 0}}
TreeNumberEntry == << Dict1(S("a"), Ref(5)), Dict2(S(""), I(5), S("2"), I(0)) >>
\* {"a": {"2": ["x"], "0": ""}}
TreeListNode ==
    << Dict1(S("a"), Ref(5)), Dict2(S("2"), Ref(6), S("0"), S("")),
       ListObj(<<S("x")>>) >>
\* {"a": {"": {"err": "bad"}, "0": {"": []}}}
TreeStringErr ==
    << Dict1(S("a"), Ref(5)), Dict2(S(""), Ref(6), S("0"), Ref(7)),
       Dict1(S("err"), S("bad")), Dict1(S(""), Ref(8)), ListObj(<<>>) >>

MalformedTrees == {TreeStringNode, TreeNumberEntry, TreeListNode, TreeStringErr}

InitMalformed ==
    /\ \E tree \in MalformedTrees, m \in {Ref(4), S("tree")} :
          heap = <<[PrimaryData[1] EXCEPT !.d[S("_meta")] = m]>>
                 \o Tail(PrimaryData) \o tree
    /\ data = Ref(1)
    /\ last = MetaCall("init", NoCursor, NoCursor, None, None, None)
    /\ nops = 0
    /\ log = NoLog
    /\ mrg = NoMerge

NextRead ==
    \/ \E p \in ReadPaths : Raw(p)
    \/ \E p \in ReadPaths : Get(p)
    \/ \E p \in ReadPaths : GetErrors(p)
    \/ \E q \in Queries, with_meta \in BOOLEAN : GetValid(q, with_meta)
    \/ \E q \in Queries, with_meta \in BOOLEAN : GetAllValid(q, with_meta)

SpecMalformed == InitMalformed /\ [][NextRead]_vars

----------------------------------------------------------------------------
(* What the properties speak of, stated without the code's own walks.      *)

Missing == [t |-> "missing", i |-> 0, s |-> ""]

\* d[key] as Python indexes a dict or a list; Missing where that would raise
Index(h, d, key) ==
    IF d.t = "ref" /\ h[d.i].k = "dict"
    THEN IF key \in DOMAIN h[d.i].d THEN h[d.i].d[key] ELSE Missing
    ELSE IF d.t = "ref" /\ h[d.i].k = "list" /\ key.t = "int"
            /\ -Len(h[d.i].l) <= key.i /\ key.i < Len(h[d.i].l)
    THEN h[d.i].l[(key.i % Len(h[d.i].l)) + 1]
    ELSE Missing

\* d[path[1]][path[2]]...
RECURSIVE Direct(_, _, _)
Direct(h, d, path) ==
    IF path = <<>> THEN d ELSE Direct(h, Index(h, d, Head(path)), Tail(path))

\* the keys of the cursor that follows `path` into d: a negative index of a
\* list becomes len + index, and every key its string
RECURSIVE CursorKeys(_, _, _)
CursorKeys(h, d, path) ==
    IF path = <<>> THEN <<>>
    ELSE <<IF d.t = "ref" /\ h[d.i].k = "list" /\ Head(path).t = "int"
              /\ Head(path).i < 0
           THEN text_type(I(Len(h[d.i].l) + Head(path).i))
           ELSE text_type(Head(path))>>
         \o CursorKeys(h, Index(h, d, Head(path)), Tail(path))

\* the node of the tree `v` at the end of `keys`; None when there is none
RECURSIVE TreeNode(_, _, _)
TreeNode(h, v, keys) ==
    IF keys = <<>> THEN v
    ELSE IF v.t = "ref" /\ h[v.i].k = "dict" /\ Head(keys) \in DOMAIN h[v.i].d
    THEN TreeNode(h, h[v.i].d[Head(keys)], Tail(keys))
    ELSE None

\* the entry (the node under "") of the cursor c, and its `err` list
EntryAt(h, c) == TreeNode(h, c.meta, c.path \o <<S("")>>)
ErrorsAt(h, c) ==
    IF IsList(h, TreeNode(h, c.meta, c.path \o <<S(""), S("err")>>))
    THEN ListOf(h, TreeNode(h, c.meta, c.path \o <<S(""), S("err")>>))
    ELSE <<>>

At(root, keys) == [meta |-> root.meta, path |-> root.path \o keys]

\* the arguments of the resolver call in `last`
LastRoot == StartMeta(heap, last.d, last.meta)
LastKeys == CursorKeys(heap, last.d, last.path)
LastDirect == Direct(heap, last.d, last.path)
\* some cursor along the path has recorded errors
LastErrorOnPath ==
    \E n \in 1..Len(last.path) :
        ErrorsAt(heap, At(LastRoot, SubSeq(LastKeys, 1, n))) # <<>>
\* the result is not-found, in the shape with_meta asks for
LastNotFound ==
    /\ last.res.k = IF last.with_meta THEN "pair" ELSE "value"
    /\ last.res.v = None

----------------------------------------------------------------------------
(* C1: get_valid returns not-found (None, or a pair whose first component  *)
(* is None under with_meta) whenever, for some non-empty prefix of the     *)
(* path, the cursor at the normalized, stringified segments of that prefix *)
(* has a non-empty `err` list, whether or not the data at the path exists, *)
(* in every tree that add_error and merge calls reach.                     *)
C1_ErrorOnPathIsNotFound ==
    (last.op = "get_valid" /\ LastErrorOnPath) => LastNotFound

\* an error recorded by a call on a strict ancestor hides a value that exists
C1_Witness ==
    /\ last.op = "get_valid" /\ nops > 0 /\ last.with_meta
    /\ last.path = <<S("a"), I(-1), S("c")>>
    /\ LastDirect = I(5)
    /\ ErrorsAt(heap, At(LastRoot, <<S("a"), S("2")>>)) # <<>>
    /\ ErrorsAt(heap, At(LastRoot, <<S("a")>>)) = <<>>
    /\ LastNotFound

(* C2: on a path of existing keys and in-range indices with no recorded    *)
(* error along it, get_valid returns exactly the value that indexing the   *)
(* data segment by segment gives (with with_meta, paired with the cursor   *)
(* at the full path); on a missing key, an out-of-range index or a value   *)
(* that is neither mapping nor list it returns not-found and never raises. *)
C2_ResolvesDirectValue ==
    last.op = "get_valid" =>
        /\ last.res.k # "raise"
        /\ (LastDirect # Missing /\ ~LastErrorOnPath) =>
               last.res = IF last.with_meta
                          THEN Pair(LastDirect, At(LastRoot, LastKeys))
                          ELSE Value(LastDirect)
        /\ LastDirect = Missing => LastNotFound

C2_Witness ==
    /\ last.op = "get_valid" /\ nops > 0 /\ last.with_meta
    /\ last.path = <<S("a"), I(-1), S("c")>>
    /\ last.res = Pair(I(5), At(Meta(Tree), <<S("a"), S("2"), S("c")>>))

\* the value and the cursor that get_valid(..., with_meta=True) resolves
LastFound == LastDirect # Missing /\ ~LastErrorOnPath
LastValue == IF LastFound THEN LastDirect ELSE None
LastCursor ==
    IF LastFound THEN At(LastRoot, LastKeys)
    ELSE At(LastRoot, [n \in 1..Len(last.path) |-> text_type(last.path[n])])

\* the cursor of the item at position i (from 1) of the resolved list
ItemCursor(i) == At(LastCursor, <<text_type(I(i - 1))>>)
\* the positions of the resolved list that get_all_valid is to keep
Kept ==
    {i \in 1..Len(ListOf(heap, LastValue)) :
        /\ ListOf(heap, LastValue)[i] # None
        /\ ErrorsAt(heap, ItemCursor(i)) = <<>>}

(* C3: when get_valid resolves a non-empty list, get_all_valid returns     *)
(* exactly its items that are not None and whose per-index cursor has no   *)
(* errors, in the original order (each paired with its per-index cursor    *)
(* under with_meta); a resolved value that is None, empty or not a list is *)
(* returned unchanged.                                                     *)
C3_FiltersValidItems ==
    last.op = "get_all_valid" =>
        IF IsList(heap, LastValue) /\ ListOf(heap, LastValue) # <<>>
        THEN /\ last.res.k = "list"
             /\ Len(last.res.l) = Cardinality(Kept)
             /\ \A i \in Kept :
                  last.res.l[Cardinality({k \in Kept : k <= i})] =
                      [v |-> ListOf(heap, LastValue)[i],
                       c |-> IF last.with_meta THEN ItemCursor(i) ELSE NoCursor]
        ELSE last.res = IF last.with_meta THEN Pair(LastValue, LastCursor)
                        ELSE Value(LastValue)

\* [10, None, {"c": 5}] with an error added on item 2: only item 0 is kept
C3_Witness ==
    /\ last.op = "get_all_valid" /\ last.with_meta /\ nops > 0
    /\ last.path = <<S("a")>>
    /\ ErrorsAt(heap, ItemCursor(3)) # <<>>
    /\ last.res = List(<<[v |-> I(10), c |-> ItemCursor(1)]>>)

\* the positions of the path in `last` that hold a negative index of a list
NegativeAt ==
    {n \in 1..Len(last.path) :
        /\ last.path[n].t = "int" /\ last.path[n].i < 0
        /\ IsList(heap, Direct(heap, last.d, SubSeq(last.path, 1, n - 1)))
        /\ Direct(heap, last.d, SubSeq(last.path, 1, n - 1)) # NewList}
SeqAt(n) == ListOf(heap, Direct(heap, last.d, SubSeq(last.path, 1, n - 1)))
\* the path with len(seq) + i in the place of the negative index i
Replaced(n) == [last.path EXCEPT ![n] = I(Len(SeqAt(n)) + last.path[n].i)]
\* what get_valid returns for that path
Other(n) == get_valid(heap, last.d, Replaced(n), last.meta, last.with_meta).r

(* C4 as stated: for every list reached and every negative segment i, also *)
(* i < -len(seq), get_valid returns for i what it returns for len(seq) + i *)
(* in its place: the same value and, under with_meta, a cursor at the same *)
(* path.                                                                   *)
C4_AsStated ==
    last.op = "get_valid" => \A n \in NegativeAt : last.res = Other(n)

(* C4 as amended: for -len(seq) <= i < 0 get_valid returns the same value  *)
(* for i as for len(seq) + i; under with_meta the cursor is the same when  *)
(* the resolution succeeds, and a not-found result carries the cursor at   *)
(* the path as the caller wrote it, the index not normalized.              *)
C4_NegativeIndexInRange ==
    last.op = "get_valid" =>
        \A n \in NegativeAt :
            -Len(SeqAt(n)) <= last.path[n].i =>
                /\ last.res.k = Other(n).k
                /\ last.res.v = Other(n).v
                /\ LastFound => last.res = Other(n)
                /\ (last.with_meta /\ ~LastFound) =>
                       /\ last.res.c = LastCursor
                       /\ Other(n).c =
                              At(LastRoot, [m \in 1..Len(last.path) |->
                                              text_type(Replaced(n)[m])])

\* a[-3] of the three-item list resolves to item 0, as a[0] does
C4_Witness ==
    /\ last.op = "get_valid" /\ last.with_meta /\ nops > 0
    /\ last.path = <<S("a"), I(-3)>>
    /\ NegativeAt = {2}
    /\ last.res = Pair(I(10), At(LastRoot, <<S("a"), S("0")>>))

----------------------------------------------------------------------------
(* Properties of the mutating calls, over a step from heap to heap'.       *)

\* the entry of cursor c has an `err` sequence
HasErr(h, c) == IsList(h, TreeNode(h, c.meta, c.path \o <<S(""), S("err")>>))
\* the keys and values of the entry of cursor c
EntryMap(h, c) == DictOf(h, EntryAt(h, c))
\* the entry of cursor c is absent or empty
NoEntry(h, c) == ~Truthy(h, EntryAt(h, c))
IsPrefix(s, t) == Len(s) <= Len(t) /\ SubSeq(t, 1, Len(s)) = s

(* C5: after destination.merge(source), when both entries had an `err`    *)
(* sequence (of any length) the destination's `err` is its previous       *)
(* errors followed by the source's, and errors the destination had are    *)
(* never lost; every other key of the source entry overwrites the         *)
(* destination's and destination keys absent from the source are kept.    *)
C5_MergeKeepsErrors ==
    [][(last'.op = "merge" /\ last'.res.k # "raise") =>
          /\ (HasErr(heap, last'.self) /\ HasErr(heap, last'.other)) =>
                 ErrorsAt(heap', last'.self) =
                     ErrorsAt(heap, last'.self) \o ErrorsAt(heap, last'.other)
          /\ IsPrefix(ErrorsAt(heap, last'.self), ErrorsAt(heap', last'.self))
          /\ \A k \in DOMAIN EntryMap(heap, last'.other) \ {S("err")} :
                 EntryMap(heap', last'.self)[k] = EntryMap(heap, last'.other)[k]
          /\ \A k \in DOMAIN EntryMap(heap, last'.self)
                        \ DOMAIN EntryMap(heap, last'.other) :
                 EntryMap(heap', last'.self)[k] = EntryMap(heap, last'.self)[k]
      ]_vars

\* a reference to a dict that the step allocated
Created(v) == v.t = "ref" /\ v.i > Len(heap) /\ heap'[v.i].k = "dict"

(* C8: create() is idempotent: a second create() on a cursor with the same *)
(* tree and path returns the same entry object and leaves the tree as it   *)
(* is; and create() keeps every node, entry field and sibling subtree that *)
(* existed, putting a new empty mapping only where a segment was missing   *)
(* or None.                                                                *)
C8_CreateIdempotent ==
    [][(last'.op = "create" /\ last'.res.k # "raise") =>
          /\ create(heap', last'.self).h = heap'
          /\ create(heap', last'.self).r = last'.res.v
          /\ (last.op = "create" /\ last.self = last'.self) =>
                 (heap' = heap /\ last'.res = last.res)
          /\ EntryAt(heap', last'.self) = last'.res.v
          /\ \A a \in 1..Len(heap) :
               /\ heap'[a].k = heap[a].k /\ heap'[a].l = heap[a].l
               /\ DOMAIN heap[a].d \subseteq DOMAIN heap'[a].d
               /\ \A k \in DOMAIN heap'[a].d :
                    \/ k \in DOMAIN heap[a].d /\ heap'[a].d[k] = heap[a].d[k]
                    \/ /\ k \notin DOMAIN heap[a].d \/ heap[a].d[k] = None
                       /\ Created(heap'[a].d[k])
          /\ \A a \in (Len(heap) + 1)..Len(heap') :
                 \A k \in DOMAIN heap'[a].d : Created(heap'[a].d[k])
      ]_vars

\* create() at a.2 of {"a": None} a second time: the three objects of the
\* first call, and the entry it made
C8_Witness ==
    /\ last.op = "create" /\ nops = 2
    /\ last.self = Cur(<<S("a"), I(2)>>)
    /\ Len(heap) = 7
    /\ last.res = Value(Ref(7))
    /\ heap[7] = DictObj(EmptyMap)

C10_MergeCopiesSource ==
    mrg # NoMerge => EntryView(heap, mrg.s) = mrg.view

----------------------------------------------------------------------------
\* str(error) of the errors the calls are made with
Str(error) == IF error = I(7) THEN S("7") ELSE error
\* the calls logged at p that gave a value
WithValue(p) == {k \in 1..Len(log[p].calls) : log[p].calls[k][2] # None}

(* C6: after add_error(e_1, v_1), ..., add_error(e_n, v_n) on cursors with *)
(* the same tree and path, from a path without entry, the entry's `err`    *)
(* is [str(e_1), ..., str(e_n)] in call order and its `val` is the value   *)
(* of the last call that gave one (no `val` when none did): a call without *)
(* value neither changes nor removes `val`.                                *)
C6_AddErrorSequence ==
    \A p \in CursorPaths :
        (log[p].fresh /\ log[p].calls # <<>>) =>
            /\ HasErr(heap, Cur(p))
            /\ ErrorsAt(heap, Cur(p)) =
                   [k \in 1..Len(log[p].calls) |-> Str(log[p].calls[k][1])]
            /\ IF WithValue(p) = {}
               THEN S("val") \notin DOMAIN EntryMap(heap, Cur(p))
               ELSE EntryMap(heap, Cur(p))[S("val")] =
                        log[p].calls[CHOOSE k \in WithValue(p) :
                                        \A j \in WithValue(p) : j <= k][2]

\* add_error(7, 1), add_error("bad", 2), add_error("bad") at a.2
C6_Witness ==
    /\ log[<<S("a"), I(2)>>].fresh
    /\ log[<<S("a"), I(2)>>].calls =
           <<<<I(7), I(1)>>, <<S("bad"), I(2)>>, <<S("bad"), None>>>>
    /\ ErrorsAt(heap, Cur(<<S("a"), I(2)>>)) = <<S("7"), S("bad"), S("bad")>>
    /\ EntryMap(heap, Cur(<<S("a"), I(2)>>))[S("val")] = I(2)

(* C7: raw(), get(), get_errors(), get_valid and get_all_valid never raise *)
(* for any annotation tree: a node, or a value under "", that is missing,  *)
(* None, falsy or not a mapping (a string, a number, a list) counts as an  *)
(* empty mapping, and the call returns its empty or not-found result.      *)
C7_ReadsNeverRaise ==
    last.op \in Observers => last.res.k # "raise"

====
